---------------------------- MODULE Spec2Model ----------------------------
(***************************************************************************)
(* Cost ledger and currency conversion engine of the Cost Manager          *)
(* (openCostsDB in src/libs/idb.module.js, latest revision: the file       *)
(* src/unnamed/part_001, the one that exposes convert, getLatestRates and  *)
(* normalizeCurrency to the views).                                        *)
(*                                                                         *)
(* JavaScript values are modelled as follows.                              *)
(*  - A string is a sequence of one-character strings, so that             *)
(*    toUpperCase and trim are computed and not assumed.  Undefined is a   *)
(*    token that is no character sequence.                                 *)
(*  - A Number is a record: Fin(n) is the finite number n/PerUnit (n an    *)
(*    integer count of thousandths), NaN, or Inf(s) with s the sign.       *)
(*    Arithmetic on finite numbers is exact: the binary rounding error of  *)
(*    a double and the Number.EPSILON nudge that compensates for it are    *)
(*    both below the resolution of the model.                              *)
(*  - A rate table is [shape |-> "flat", map |-> f] or                     *)
(*    [shape |-> "wrapped", base |-> b, map |-> f]: "wrapped" is the       *)
(*    structural test `rates.rates && typeof rates.rates === 'object'`.    *)
(***************************************************************************)
EXTENDS Integers, Sequences, FiniteSets, TLC

VARIABLES
    costs,      \* object store 'costs': sequence of records, in key order
    ratesRow,   \* object store 'rates': the row keyed 'latest' (NoRow: none)
    clock,      \* wall clock read by new Date(): <<year, month>>
    ratesURL,   \* localStorage 'ratesURL' and what a fetch of it answers
    ret,        \* outcome of the last completed API call
    nIn, nOut,  \* normalizeCurrency applied to an input
    cIn, cOut,  \* convert applied to an input
    tIn, tOut,  \* normalizeRatesObject applied to an input
    calls,      \* the API calls in flight, each at its await
    txq,        \* the live IndexedDB transactions, by call, in creation order
    faults      \* transactions that failed so far

vars == <<costs, ratesRow, clock, ratesURL, ret, nIn, nOut, cIn, cOut, tIn, tOut,
          calls, txq, faults>>

storeVars == <<costs, ratesRow, clock, ratesURL, ret>>
normVars  == <<nIn, nOut>>
convVars  == <<cIn, cOut>>
tableVars == <<tIn, tOut>>
asyncVars == <<calls, txq, faults>>

---------------------------------------------------------------------------
(* Strings *)

Undefined == <<"<undefined>">>

sEmpty == << >>
sUSD   == <<"U", "S", "D">>
sGBP   == <<"G", "B", "P">>
sEUR   == <<"E", "U", "R">>
sEURO  == <<"E", "U", "R", "O">>
sILS   == <<"I", "L", "S">>

\* the letters the model's inputs are written with: <<lower, upper>>
Letters ==
    { <<"u", "U">>, <<"s", "S">>, <<"d", "D">>, <<"g", "G">>, <<"b", "B">>,
      <<"p", "P">>, <<"e", "E">>, <<"r", "R">>, <<"o", "O">>, <<"i", "I">>,
      <<"l", "L">>, <<"x", "X">> }

UpperChar(ch) ==
    IF \E p \in Letters : p[1] = ch
    THEN (CHOOSE p \in Letters : p[1] = ch)[2]
    ELSE ch

LowerChar(ch) ==
    IF \E p \in Letters : p[2] = ch
    THEN (CHOOSE p \in Letters : p[2] = ch)[1]
    ELSE ch

\* String.prototype.toUpperCase
toUpperCase(s) == [i \in 1..Len(s) |-> UpperChar(s[i])]

IsSpace(ch) == ch = " "

RECURSIVE TrimLeft(_)
TrimLeft(s) ==
    IF s # << >> /\ IsSpace(Head(s)) THEN TrimLeft(Tail(s)) ELSE s

RECURSIVE TrimRight(_)
TrimRight(s) ==
    IF s # << >> /\ IsSpace(s[Len(s)])
    THEN TrimRight(SubSeq(s, 1, Len(s) - 1))
    ELSE s

\* String.prototype.trim
trim(s) == TrimRight(TrimLeft(s))

\* `!c` for a string or a missing value
Falsy(s) == s = Undefined \/ s = sEmpty

\* `a || b`
OrElse(a, b) == IF Falsy(a) THEN b ELSE a

\* a slip of normalizeCurrency: the trim left out
normalizeCurrencyNoTrim(c) ==
    IF Falsy(c) THEN sUSD
    ELSE LET up == toUpperCase(c)
         IN  IF up = sEURO THEN sEUR ELSE up

normalizeCurrency(c) ==
    IF Falsy(c) THEN sUSD
    ELSE LET up == trim(toUpperCase(c))
         IN  IF up = sEURO THEN sEUR ELSE up

---------------------------------------------------------------------------
(* Numbers *)

Hundred == 100
PerUnit == 10 * Hundred          \* a Number n stands for n / PerUnit
PerCent == PerUnit \div Hundred  \* thousandths in one hundredth

Fin(n) == [k |-> "fin", v |-> n]
NaN    == [k |-> "nan", v |-> 0]
Inf(s) == [k |-> "inf", v |-> s]
NotANumber == [k |-> "str", v |-> 0]   \* a value such as "abc"

\* Number(v)
Number(v) == IF v.k = "str" THEN NaN ELSE v

isFinite(x) == Number(x).k = "fin"

Sign(n) == IF n > 0 THEN 1 ELSE IF n < 0 THEN -1 ELSE 0

\* a + b
Add(a, b) ==
    IF a.k = "nan" \/ b.k = "nan" THEN NaN
    ELSE IF a.k = "inf" /\ b.k = "inf" THEN (IF a.v = b.v THEN a ELSE NaN)
    ELSE IF a.k = "inf" THEN a
    ELSE IF b.k = "inf" THEN b
    ELSE Fin(a.v + b.v)

\* Math.round(q * 100) / 100 for the exact quotient q = num / den of two
\* counts of thousandths, den > 0: Math.round rounds a half towards +Infinity
RoundQuot(num, den) ==
    Fin(PerCent * ((2 * num + PerCent * den) \div (2 * PerCent * den)))

\* Math.round(x * 100) / 100
Round2(x) == IF x.k = "fin" THEN RoundQuot(x.v, 1) ELSE x

\* slips of the arithmetic below: the factor of `from` alone, the ratio
\* upside down, the ratio rounded before the multiplication, the result cut
\* and not rounded
ScaleAndRoundNaive(amt, rTo, rFrom) ==
    RoundQuot(amt * rFrom, PerUnit)

ScaleAndRoundInverse(amt, rTo, rFrom) ==
    IF rTo = 0 THEN NaN ELSE
    IF rTo > 0 THEN RoundQuot(amt * rFrom, rTo) ELSE RoundQuot(-(amt * rFrom), -rTo)

ScaleAndRoundEarly(amt, rTo, rFrom) ==
    IF rFrom <= 0 THEN NaN
    ELSE RoundQuot(amt * RoundQuot(rTo * PerUnit, rFrom).v, PerUnit)

ScaleAndRoundTruncate(amt, rTo, rFrom) ==
    IF rFrom <= 0 THEN NaN
    ELSE Fin(PerCent * ((amt * rTo) \div (PerCent * rFrom)))

\* Math.round(((amt * (rTo / rFrom)) + Number.EPSILON) * 100) / 100
\* for finite amt, rTo, rFrom (integers, in thousandths)
ScaleAndRound(amt, rTo, rFrom) ==
    IF rFrom = 0
    THEN \* rTo / 0 is NaN or an infinity; times amt it stays so, or 0 * Inf = NaN
         IF rTo = 0 \/ amt = 0 THEN NaN ELSE Inf(Sign(rTo) * Sign(amt))
    ELSE IF rFrom > 0
         THEN RoundQuot(amt * rTo, rFrom)
         ELSE RoundQuot(-(amt * rTo), -rFrom)

---------------------------------------------------------------------------
(* Rate tables and conversion *)

NULL == [shape |-> "null"]

Flat(f)       == [shape |-> "flat", map |-> f]
Wrapped(b, f) == [shape |-> "wrapped", base |-> b, map |-> f]

\* table[k] != null
Has(table, k) == k \in DOMAIN table

One == Fin(PerUnit)

\* table[k], undefined when absent: Number(undefined) is NaN
Lookup(table, k) == IF Has(table, k) THEN table[k] ELSE NaN

baseOf(rates) == toUpperCase(OrElse(rates.base, sUSD))

convertWrapped(amt, from, to, rates) ==
    LET base  == baseOf(rates)
        table == rates.map
        f     == normalizeCurrency(from)
        t     == normalizeCurrency(to)
        rFrom == Number(IF f = base THEN One ELSE Lookup(table, f))
        rTo   == Number(IF t = base THEN One ELSE Lookup(table, t))
    IN  IF ~isFinite(rFrom) \/ ~isFinite(rTo) THEN amt
        ELSE ScaleAndRound(amt.v, rTo.v, rFrom.v)

convertFlat(amt, from, to, rates) ==
    LET table  == rates.map
        f      == normalizeCurrency(from)
        t      == normalizeCurrency(to)
        get(k) == IF Has(table, k) THEN Number(table[k]) ELSE NaN
        rFrom  == get(f)
        rTo    == get(t)
    IN  IF ~isFinite(rFrom) \/ ~isFinite(rTo) THEN amt
        ELSE ScaleAndRound(amt.v, rTo.v, rFrom.v)

convert(amount, from, to, rates) ==
    LET amt == Number(amount)
    IN  IF ~isFinite(amt) \/ rates = NULL THEN amt
        ELSE IF rates.shape = "wrapped"
             THEN convertWrapped(amt, from, to, rates)
             ELSE convertFlat(amt, from, to, rates)


---------------------------------------------------------------------------
(* The store: rates *)

\* a slip of the merge below: the two spellings trade values when both are
\* present
MergeEuroSwap(map) ==
    IF Has(map, sEURO) /\ ~Has(map, sEUR)
    THEN [x \in (DOMAIN map \ {sEURO}) \cup {sEUR} |->
            IF x = sEUR THEN map[sEURO] ELSE map[x]]
    ELSE IF Has(map, sEURO)
         THEN [x \in DOMAIN map |->
                 IF x = sEUR THEN map[sEURO] ELSE IF x = sEURO THEN map[sEUR] ELSE map[x]]
         ELSE map

\* if (m.EURO != null && m.EUR == null) { m.EUR = m.EURO; delete m.EURO }
MergeEuro(map) ==
    IF Has(map, sEURO) /\ ~Has(map, sEUR)
    THEN [x \in (DOMAIN map \ {sEURO}) \cup {sEUR} |->
            IF x = sEUR THEN map[sEURO] ELSE map[x]]
    ELSE map

normalizeRatesObject(obj) ==
    IF obj = NULL THEN obj
    ELSE IF obj.shape = "wrapped"
         THEN Wrapped(IF ~Falsy(obj.base) /\ toUpperCase(obj.base) = sEURO
                      THEN sEUR ELSE obj.base,
                      MergeEuro(obj.map))
         ELSE Flat(MergeEuro(obj.map))

NoRow == [present |-> FALSE, rates |-> NULL]

\* s.rates.put({ id: 'latest', updatedAt: Date.now(), rates: normalized })
RowOf(rates) == [present |-> TRUE, rates |-> normalizeRatesObject(rates)]

\* getLatestRates(): row && row.rates ? normalizeRatesObject(row.rates) : null
LatestRates(row) ==
    IF row.present /\ row.rates # NULL THEN normalizeRatesObject(row.rates) ELSE NULL

\* localStorage has no 'ratesURL'
NoURL == [url |-> FALSE, ok |-> FALSE, json |-> NULL]

\* ensureRates(): the table getReport converts with, and the row it leaves.
\* With no stored table and a URL configured the feed is fetched; a feed
\* that answers is saved (normalized) and returned as fetched.
EnsureRates(row, feed) ==
    LET latest == LatestRates(row)
    IN  IF latest # NULL THEN [rates |-> latest, row |-> row]
        ELSE IF feed.url /\ feed.ok
             THEN [rates |-> feed.json, row |-> RowOf(feed.json)]
             ELSE [rates |-> NULL, row |-> row]

---------------------------------------------------------------------------
(* The store: costs and reports *)

FirstPeriod == <<2026, 11>>

\* months the clock has advanced since FirstPeriod
Elapsed(p) == (p[1] - FirstPeriod[1]) * 12 + (p[2] - FirstPeriod[2])

NextPeriod(p) == IF p[2] = 12 THEN <<p[1] + 1, 1>> ELSE <<p[1], p[2] + 1>>

\* the record addCost builds from its input at the time `now`
RecordOf(cost, now) ==
    [ sum         |-> Number(cost.sum),
      currency    |-> normalizeCurrency(OrElse(cost.currency, sUSD)),
      category    |-> IF cost.category = "" THEN "General" ELSE cost.category,
      description |-> cost.description,
      year        |-> now[1],
      month       |-> now[2] ]

\* a slip of Echo below: the stored record handed back whole
EchoRecord(rec) == rec

\* the fields addCost resolves with
Echo(rec) ==
    [ sum |-> rec.sum, currency |-> rec.currency,
      category |-> rec.category, description |-> rec.description ]

\* a slip of ItemsOf below: the key range on the year alone
RECURSIVE ItemsOfYear(_, _, _)
ItemsOfYear(rows, y, m) ==
    IF rows = << >> THEN << >>
    ELSE LET v    == Head(rows)
             rest == ItemsOfYear(Tail(rows), y, m)
         IN  IF v.year = y
             THEN <<[ sum |-> v.sum, currency |-> v.currency,
                      category |-> v.category, description |-> v.description ]>>
                  \o rest
             ELSE rest

\* the cursor over index 'by_year_month', IDBKeyRange.only([y, m]); the
\* day of the month (ts, day, Date.day) is left out of records and items
RECURSIVE ItemsOf(_, _, _)
ItemsOf(rows, y, m) ==
    IF rows = << >> THEN << >>
    ELSE LET v    == Head(rows)
             rest == ItemsOf(Tail(rows), y, m)
         IN  IF v.year = y /\ v.month = m
             THEN <<[ sum |-> v.sum, currency |-> v.currency,
                      category |-> v.category, description |-> v.description ]>>
                  \o rest
             ELSE rest

\* items.reduce((acc, it) => acc + (rates ? convert(...) : it.sum), 0)
RECURSIVE TotalFrom(_, _, _, _)
TotalFrom(acc, items, cur, rates) ==
    IF items = << >> THEN acc
    ELSE LET it == Head(items)
         IN  TotalFrom(Add(acc, IF rates # NULL
                                THEN convert(it.sum, it.currency, cur, rates)
                                ELSE it.sum),
                       Tail(items), cur, rates)

ReportOf(rows, y, m, cur, rates) ==
    LET items == ItemsOf(rows, y, m)
    IN  [ year  |-> y, month |-> m, costs |-> items,
          total |-> [ currency |-> cur,
                      total    |-> Round2(TotalFrom(Fin(0), items, cur, rates)) ] ]

---------------------------------------------------------------------------
(* normalizeCurrency applied to bounded inputs *)

MaxPad == 1     \* spaces put before and after a code

Pending == <<"<pending>">>

Spaces(n) == [i \in 1..n |-> " "]

\* every upper/lower-case spelling of the upper-case word w
CaseVariants(w) ==
    { [i \in 1..Len(w) |-> IF m[i] THEN w[i] ELSE LowerChar(w[i])] :
        m \in [1..Len(w) -> BOOLEAN] }

NormWords == {sEmpty, sUSD, sGBP, sEUR, sEURO}

NormInputs ==
    { [word |-> w, s |-> Spaces(l) \o v \o Spaces(r)] :
        w \in NormWords, v \in UNION {CaseVariants(x) : x \in NormWords},
        l \in 0..MaxPad, r \in 0..MaxPad }

NormCases ==
    { i \in NormInputs : toUpperCase(trim(i.s)) = i.word /\ Len(i.s) >= Len(i.word) }
    \cup {[word |-> Undefined, s |-> Undefined]}

MaxCalls == 2    \* API calls issued in one behaviour
MaxFaults == 1   \* transactions that fail in one behaviour

Callers == 1..MaxCalls

\* a call not issued yet
IdleCall ==
    [ op |-> "none", pc |-> "idle", status |-> "pending", arg |-> NULL,
      payload |-> NULL, key |-> 0,
      before |-> [costs |-> << >>, row |-> NoRow], after |-> {},
      rates |-> NULL, items |-> << >>, keys |-> << >>, rep |-> NULL,
      latest |-> NULL, value |-> NULL ]

AsyncIdle ==
    /\ calls = [c \in Callers |-> IdleCall]
    /\ txq = << >>
    /\ faults = 0

StoreIdle ==
    /\ costs = << >>
    /\ ratesRow = NoRow
    /\ clock = FirstPeriod
    /\ ratesURL = NoURL
    /\ ret = [op |-> "none"]

NormIdle == nIn = [word |-> Undefined, s |-> Undefined] /\ nOut = Pending

NotYet == [k |-> "none", v |-> 0]

ConvIdle ==
    /\ cIn = [amount |-> NaN, from |-> Undefined, to |-> Undefined,
               rates |-> NULL, scale |-> 1]
    /\ cOut = [st |-> "idle", out |-> NotYet, back |-> NotYet, scaled |-> NotYet]

TableIdle ==
    /\ tIn = NULL
    /\ tOut = [st |-> "idle", once |-> NULL, twice |-> NULL]

InitNorm ==
    /\ nIn \in NormCases
    /\ nOut = Pending
    /\ StoreIdle
    /\ ConvIdle
    /\ TableIdle
    /\ AsyncIdle

NormalizeCall ==
    /\ nOut = Pending
    /\ nOut' = normalizeCurrency(nIn.s)
    /\ UNCHANGED <<nIn, storeVars, convVars, tableVars, asyncVars>>

NextNorm == NormalizeCall

SpecNorm == InitNorm /\ [][NextNorm]_vars

\* C10: normalizeCode upper-cases and trims its input, maps both Euro
\* spellings (in any case, with surrounding whitespace) to one canonical
\* code, and maps a missing or empty input to the default code USD.
C10_NormalizeCode ==
    nOut # Pending =>
        IF Falsy(nIn.s) THEN nOut = sUSD
        ELSE IF nIn.word \in {sEUR, sEURO} THEN nOut = sEUR
        ELSE nOut = nIn.word

C10_Witness ==
    /\ nIn.s = <<" ", "e", "U", "r", "o", " ">>
    /\ nOut = sEUR

---------------------------------------------------------------------------
(* convert applied to bounded inputs *)

\* amounts: 0, 0.04, 1.005, 10, 100 and -1.005
ConvAmounts ==
    {Fin(0), Fin(40), Fin(1005), Fin(10000), Fin(100000), Fin(-1005)}

ConvCodes == {sUSD, sEUR, sEURO, <<" ", "g", "b", "p", " ">>, Undefined}

\* what a table may hold for a key: 1, 1.8, 0.7, 3.4, 0, -1, "abc", Infinity,
\* or nothing
Absent == [k |-> "absent", v |-> 0]

GoodRates == {Fin(1000), Fin(1800), Fin(700), Fin(3400)}

BadRates == {Fin(0), Fin(-1000), NotANumber, Inf(1)}

\* the table that holds e[k] for each key k with e[k] # Absent
TableOf(e) == [k \in {x \in DOMAIN e : e[x] # Absent} |-> e[k]]

AnyFlatTables ==
    { Flat(TableOf([k \in {sUSD, sGBP, sEUR} |->
            IF k = sUSD THEN u ELSE IF k = sGBP THEN g ELSE e])) :
        u \in {Absent, Fin(1000)},
        g \in GoodRates \cup BadRates \cup {Absent},
        e \in GoodRates \cup BadRates \cup {Absent} }

WrappedBases == {sUSD, <<"u", "s", "d">>, <<" ", "U", "S", "D">>, sEURO, Undefined}

AnyWrappedTables ==
    { Wrapped(b, TableOf([k \in {sGBP, sEUR} |-> IF k = sGBP THEN g ELSE e])) :
        b \in WrappedBases,
        g \in GoodRates \cup BadRates \cup {Absent},
        e \in GoodRates \cup BadRates \cup {Absent} }

ConvPending == [st |-> "pending", out |-> NotYet, back |-> NotYet, scaled |-> NotYet]

InitConvert ==
    /\ cIn \in [amount : ConvAmounts, from : ConvCodes, to : ConvCodes,
                 rates : AnyFlatTables \cup AnyWrappedTables \cup {NULL},
                 scale : {1}]
    /\ cOut = ConvPending
    /\ StoreIdle
    /\ NormIdle
    /\ TableIdle
    /\ AsyncIdle

\* api.convert(amount, from, to, rates): no path of convert throws
ConvertCall ==
    /\ cOut.st = "pending"
    /\ cOut' = [cOut EXCEPT !.st = "returned",
                             !.out = convert(cIn.amount, cIn.from, cIn.to, cIn.rates)]
    /\ UNCHANGED <<cIn, storeVars, normVars, tableVars, asyncVars>>

NextConvert == ConvertCall

SpecConvert == InitConvert /\ [][NextConvert]_vars

---------------------------------------------------------------------------
(* What the conversion contract says, for the properties below *)

\* r(code): the stored factor of a code in a flat table; in a wrapped table
\* 1 for the declared base and the stored factor otherwise
Factor(rates, code) ==
    LET c == normalizeCurrency(code)
    IN  IF rates.shape = "wrapped" /\ c = normalizeCurrency(rates.base) THEN One
        ELSE IF Has(rates.map, c) THEN rates.map[c]
        ELSE Absent

Positive(v) == v.k = "fin" /\ v.v > 0

\* out is the quotient num / den (den > 0) rounded to hundredths, a half
\* going up
IsHalfUp(out, num, den) ==
    /\ out.k = "fin"
    /\ out.v % PerCent = 0
    /\ LET c == out.v \div PerCent
       IN  /\ (2 * c - 1) * PerCent * den <= 2 * num
           /\ 2 * num < (2 * c + 1) * PerCent * den

SameCode(a, b) == normalizeCurrency(a) = normalizeCurrency(b)

Returned == cOut.st = "returned"

\* C2: for a flat table and codes that differ after normalization, both with
\* a finite factor > 0, convert returns amount * (t[to] / t[from]) rounded
\* once, after the multiplication, half-up to 2 decimals.
C2_FlatCrossRate ==
    (/\ Returned
     /\ cIn.rates.shape = "flat"
     /\ ~SameCode(cIn.from, cIn.to)
     /\ Positive(Factor(cIn.rates, cIn.from))
     /\ Positive(Factor(cIn.rates, cIn.to)))
    => IsHalfUp(cOut.out,
                cIn.amount.v * Factor(cIn.rates, cIn.to).v,
                Factor(cIn.rates, cIn.from).v)

\* 1.005 GBP to EUR at GBP = EUR = 1.8: the exact tie 1.005 goes up to 1.01
C2_Witness ==
    /\ Returned
    /\ cIn.rates = Flat(TableOf([k \in {sGBP, sEUR} |-> Fin(1800)]))
    /\ cIn.amount = Fin(1005)
    /\ cIn.from = <<" ", "g", "b", "p", " ">>
    /\ cIn.to = sEURO
    /\ cOut.out = Fin(1010)

\* C3: for a wrapped table {base: B, rates} convert uses factor 1 for a code
\* equal to B after normalization and rates[code] for any other code, with
\* the formula amount * (r(to) / r(from)) rounded half-up to 2 decimals.
C3_WrappedCrossRate ==
    (/\ Returned
     /\ cIn.rates.shape = "wrapped"
     /\ ~SameCode(cIn.from, cIn.to)
     /\ Positive(Factor(cIn.rates, cIn.from))
     /\ Positive(Factor(cIn.rates, cIn.to)))
    => IsHalfUp(cOut.out,
                cIn.amount.v * Factor(cIn.rates, cIn.to).v,
                Factor(cIn.rates, cIn.from).v)

\* C4: convert(x, A', A'', t) returns x exactly, unrounded, whenever A' and
\* A'' normalize to the same code, for any table t.
C4_IdentityExact ==
    (Returned /\ SameCode(cIn.from, cIn.to)) => cOut.out = Number(cIn.amount)

\* C5: with a non-null table and codes that differ after normalization,
\* convert fails (returns no number) when the factor of from or of to is
\* missing, not finite or <= 0.
C5_FailsOnBadFactor ==
    (/\ cOut.st # "pending"
     /\ cIn.rates # NULL
     /\ ~SameCode(cIn.from, cIn.to)
     /\ \/ ~Positive(Factor(cIn.rates, cIn.from))
        \/ ~Positive(Factor(cIn.rates, cIn.to)))
    => cOut.st = "threw"

---------------------------------------------------------------------------
(* convert applied twice: there and back, and against a rescaled table *)

LawAmounts == {Fin(10), Fin(40), Fin(1000), Fin(1005), Fin(10000), Fin(100000)}

LawCodes == {sUSD, <<" ", "g", "b", "p", " ">>, sEURO}

ValidFlatTables ==
    { Flat([k \in {sUSD, sGBP, sEUR} |->
            IF k = sUSD THEN u ELSE IF k = sGBP THEN g ELSE e]) :
        u \in GoodRates, g \in GoodRates, e \in GoodRates }

ValidWrappedTables ==
    { Wrapped(sUSD, [k \in {sGBP, sEUR} |-> IF k = sGBP THEN g ELSE e]) :
        g \in GoodRates, e \in GoodRates }

Scales == {2, 3}

\* the flat table t with every factor multiplied by k
Rescaled(t, k) == Flat([c \in DOMAIN t.map |-> Fin(t.map[c].v * k)])

InitLaws ==
    /\ cIn \in [amount : LawAmounts, from : LawCodes, to : LawCodes,
                 rates : ValidFlatTables \cup ValidWrappedTables,
                 scale : Scales]
    /\ cOut = ConvPending
    /\ StoreIdle
    /\ NormIdle
    /\ TableIdle
    /\ AsyncIdle

\* convert(convert(x, A, B, t), B, A, t)
ConvertBackCall ==
    /\ Returned
    /\ cOut.back = NotYet
    /\ cOut' = [cOut EXCEPT !.back = convert(cOut.out, cIn.to, cIn.from, cIn.rates)]
    /\ UNCHANGED <<cIn, storeVars, normVars, tableVars, asyncVars>>

\* convert(x, A, B, t') with t' the flat table t rescaled
ConvertRescaledCall ==
    /\ Returned
    /\ cOut.scaled = NotYet
    /\ cIn.rates.shape = "flat"
    /\ cOut' = [cOut EXCEPT !.scaled = convert(cIn.amount, cIn.from, cIn.to,
                                                Rescaled(cIn.rates, cIn.scale))]
    /\ UNCHANGED <<cIn, storeVars, normVars, tableVars, asyncVars>>

NextLaws == ConvertCall \/ ConvertBackCall \/ ConvertRescaledCall

SpecLaws == InitLaws /\ [][NextLaws]_vars

\* C6: the result does not depend on the pivot: for a flat table t with
\* positive factors and a positive constant k, convert(x, from, to, t)
\* equals convert(x, from, to, t') with t' = t with every factor times k.
C6_PivotIndependent ==
    cOut.scaled # NotYet => cOut.scaled = cOut.out

\* 10 EUR to GBP at EUR = 0.7, GBP = 1.8 is 25.71, also at EUR = 2.1, GBP = 5.4
C6_Witness ==
    /\ cIn.amount = Fin(10000)
    /\ cIn.from = sEURO
    /\ cIn.to = <<" ", "g", "b", "p", " ">>
    /\ cIn.rates.shape = "flat"
    /\ cIn.rates.map[sEUR] = Fin(700)
    /\ cIn.rates.map[sGBP] = Fin(1800)
    /\ cIn.scale = 3
    /\ cOut.out = Fin(25710)
    /\ cOut.scaled = Fin(25710)

Abs(n) == IF n < 0 THEN -n ELSE n

\* C7 as stated: convert(convert(x, A, B, t), B, A, t) differs from x by at
\* most 0.01, for valid tables and codes with positive factors.
C7_RoundTripWithinCent ==
    cOut.back # NotYet => Abs(cOut.back.v - cIn.amount.v) <= PerCent

\* C7 as amended: the round trip differs from x by at most
\* 0.005 * (1 + r(A) / r(B)): half a cent from the rounding of the way
\* back, and half a cent from the way there, magnified by r(A) / r(B).
C7_RoundTripBound ==
    cOut.back # NotYet =>
        LET rA == Factor(cIn.rates, cIn.from).v
            rB == Factor(cIn.rates, cIn.to).v
        IN  2 * rB * Abs(cOut.back.v - cIn.amount.v) <= PerCent * (rA + rB)

\* a round trip that ends more than a cent away from where it started
C7_Witness ==
    /\ cOut.back # NotYet
    /\ ~SameCode(cIn.from, cIn.to)
    /\ Abs(cOut.back.v - cIn.amount.v) > PerCent

---------------------------------------------------------------------------
(* normalizeRatesObject applied to bounded inputs, once and twice *)

sEurLower == <<"e", "u", "r">>
sGbpPadded == <<" ", "G", "B", "P">>

\* flat tables over the keys USD, EUR, EURO, "eur" and " GBP", each key absent
\* or present, the two Euro spellings with equal or different values
NormFlatTables ==
    { Flat(TableOf([k \in {sUSD, sEUR, sEURO, sEurLower, sGbpPadded} |->
            IF k = sUSD THEN u ELSE IF k = sEUR THEN e ELSE IF k = sEURO THEN o
            ELSE IF k = sEurLower THEN l ELSE g])) :
        u \in {Absent, Fin(1000)},
        e \in {Absent, Fin(700), Fin(900)},
        o \in {Absent, Fin(700), Fin(900)},
        l \in {Absent, Fin(700)},
        g \in {Absent, Fin(1800)} }

NormBases == {sUSD, sEURO, <<"e", "u", "r", "o">>, <<" ", "u", "s", "d">>, Undefined}

NormWrappedTables ==
    { Wrapped(b, TableOf([k \in {sEUR, sEURO, sGbpPadded} |->
            IF k = sEUR THEN e ELSE IF k = sEURO THEN o ELSE g])) :
        b \in NormBases,
        e \in {Absent, Fin(700), Fin(900)},
        o \in {Absent, Fin(700), Fin(900)},
        g \in {Absent, Fin(1800)} }

InitTables ==
    /\ tIn \in NormFlatTables \cup NormWrappedTables \cup {NULL}
    /\ tOut = [st |-> "pending", once |-> NULL, twice |-> NULL]
    /\ StoreIdle
    /\ NormIdle
    /\ ConvIdle
    /\ AsyncIdle

\* normalizeRatesObject(x)
NormalizeRatesCall ==
    /\ tOut.st = "pending"
    /\ tOut' = [tOut EXCEPT !.st = "once", !.once = normalizeRatesObject(tIn)]
    /\ UNCHANGED <<tIn, storeVars, normVars, convVars, asyncVars>>

\* normalizeRatesObject(normalizeRatesObject(x))
NormalizeRatesAgainCall ==
    /\ tOut.st = "once"
    /\ tOut' = [tOut EXCEPT !.st = "twice", !.twice = normalizeRatesObject(tOut.once)]
    /\ UNCHANGED <<tIn, storeVars, normVars, convVars, asyncVars>>

NextTables == NormalizeRatesCall \/ NormalizeRatesAgainCall

SpecTables == InitTables /\ [][NextTables]_vars

Normalized == tOut.st \in {"once", "twice"}

\* C11: for a table (flat, or the rates of a wrapped table) that holds both
\* Euro spellings with different values, the normalized table keeps the value
\* of the canonical spelling and holds no alias key.
C11_AliasMerged ==
    (/\ Normalized
     /\ tIn # NULL
     /\ Has(tIn.map, sEUR) /\ Has(tIn.map, sEURO)
     /\ tIn.map[sEUR] # tIn.map[sEURO])
    => /\ Has(tOut.once.map, sEUR)
       /\ tOut.once.map[sEUR] = tIn.map[sEUR]
       /\ ~Has(tOut.once.map, sEURO)

\* C12: normalizing twice gives what normalizing once gives, for every flat
\* or wrapped table.
C12_Idempotent ==
    tOut.st = "twice" => tOut.twice = tOut.once

\* {base: "euro", rates: {EURO: 0.9}} normalized to {base: "EUR", rates:
\* {EUR: 0.9}}, and again
C12_Witness ==
    /\ tOut.st = "twice"
    /\ tIn = Wrapped(<<"e", "u", "r", "o">>, TableOf([k \in {sEURO} |-> Fin(900)]))
    /\ tOut.once = Wrapped(sEUR, TableOf([k \in {sEUR} |-> Fin(900)]))
    /\ tOut.twice = tOut.once

\* C13: in the normalized table every key, and the declared base of a wrapped
\* table, is a fixed point of normalizeCurrency.
C13_KeysCanonical ==
    (Normalized /\ tIn # NULL) =>
        /\ \A k \in DOMAIN tOut.once.map : normalizeCurrency(k) = k
        /\ (tOut.once.shape = "wrapped" /\ tOut.once.base # Undefined)
               => normalizeCurrency(tOut.once.base) = tOut.once.base

---------------------------------------------------------------------------
(* The API of openCostsDB, one call at a time *)

MaxCosts == 2   \* records added in one behaviour
MaxTicks == 2   \* months the clock advances in one behaviour

\* {USD: 1, GBP: 1.8, EUR: 0.7, ILS: 3.4}
TableFull ==
    Flat([k \in {sUSD, sGBP, sEUR, sILS} |->
            IF k = sUSD THEN Fin(1000) ELSE IF k = sGBP THEN Fin(1800)
            ELSE IF k = sEUR THEN Fin(700) ELSE Fin(3400)])

\* {USD: 1, EURO: 0.7}: the alias spelling, and no entry for GBP
TableAlias == Flat([k \in {sUSD, sEURO} |-> IF k = sUSD THEN Fin(1000) ELSE Fin(700)])

\* {base: "USD", rates: {GBP: 1.8, EUR: 0.7}}
TableWrapped ==
    Wrapped(sUSD, [k \in {sGBP, sEUR} |-> IF k = sGBP THEN Fin(1800) ELSE Fin(700)])

RateInputs == {TableFull, TableAlias, TableWrapped, NULL}

\* a feed {USD: 1, GBP: 1.8, <euro>: 0.7}, the Euro spelled as given
FeedTable(euro) ==
    Flat([k \in {sUSD, sGBP, euro} |->
            IF k = sUSD THEN Fin(1000) ELSE IF k = sGBP THEN Fin(1800) ELSE Fin(700)])

\* what localStorage 'ratesURL' names: nothing, a URL that fails, a URL that
\* answers a feed with either spelling of the Euro
Feeds ==
    { NoURL, [url |-> TRUE, ok |-> FALSE, json |-> NULL] }
    \cup { [url |-> TRUE, ok |-> TRUE, json |-> FeedTable(euro)] : euro \in {sEUR, sEURO} }

\* 100 GBP, 50 USD, 50 "euro", and a sum that is no number
CostInputs ==
    { [ sum |-> p[1], currency |-> p[2], category |-> "Food", description |-> "lunch" ] :
        p \in { <<Fin(100000), sGBP>>, <<Fin(50000), sUSD>>,
                <<Fin(50000), <<"e", "u", "r", "o">> >>, <<NotANumber, sUSD>> } }

ReportPeriods == {FirstPeriod, NextPeriod(FirstPeriod), <<FirstPeriod[1] + 1, FirstPeriod[2]>>}

ReportCurrencies == {sUSD, sEUR}

Init ==
    /\ costs = << >>
    /\ ratesRow = NoRow
    /\ clock = FirstPeriod
    /\ ratesURL \in Feeds
    /\ ret = [op |-> "none"]
    /\ NormIdle
    /\ ConvIdle
    /\ TableIdle
    /\ AsyncIdle

\* a slip of AddCost below: the record put under one fixed key
AddCostOverwrite(cost) ==
    LET rec == RecordOf(cost, clock)
    IN  /\ Len(costs) < MaxCosts
        /\ IF ~isFinite(rec.sum)
           THEN /\ ret' = [op |-> "addCost", status |-> "rejected", arg |-> cost]
                /\ UNCHANGED costs
           ELSE /\ costs' = <<[id |-> 1] @@ rec>>
                /\ ret' = [op |-> "addCost", status |-> "resolved", arg |-> cost,
                           value |-> Echo(rec)]
        /\ UNCHANGED <<ratesRow, clock, ratesURL, normVars, convVars, tableVars, asyncVars>>

\* addCost(cost)
AddCost(cost) ==
    LET rec == RecordOf(cost, clock)
    IN  /\ Len(costs) < MaxCosts
        /\ IF ~isFinite(rec.sum)
           THEN /\ ret' = [op |-> "addCost", status |-> "rejected", arg |-> cost]
                /\ UNCHANGED costs
           ELSE /\ costs' = Append(costs, [id |-> Len(costs) + 1] @@ rec)
                /\ ret' = [op |-> "addCost", status |-> "resolved", arg |-> cost,
                           value |-> Echo(rec)]
        /\ UNCHANGED <<ratesRow, clock, ratesURL, normVars, convVars, tableVars, asyncVars>>

\* setRates(rates)
SetRates(rates) ==
    /\ ratesRow' = RowOf(rates)
    /\ ret' = [op |-> "setRates", status |-> "resolved", arg |-> rates]
    /\ UNCHANGED <<costs, clock, ratesURL, normVars, convVars, tableVars, asyncVars>>

\* getLatestRates()
GetLatestRates ==
    /\ ret' = [op |-> "getLatestRates", status |-> "resolved",
               value |-> LatestRates(ratesRow)]
    /\ UNCHANGED <<costs, ratesRow, clock, ratesURL, normVars, convVars, tableVars, asyncVars>>

\* a slip of GetReport below: the converted amounts written back
GetReportWriteBack(y, m, currency) ==
    LET cur == normalizeCurrency(OrElse(currency, sUSD))
        e   == EnsureRates(ratesRow, ratesURL)
    IN  /\ ratesRow' = e.row
        /\ costs' = [i \in 1..Len(costs) |->
                        IF costs[i].year = y /\ costs[i].month = m
                        THEN [costs[i] EXCEPT
                                !.sum = convert(costs[i].sum, costs[i].currency, cur, e.rates),
                                !.currency = cur]
                        ELSE costs[i]]
        /\ ret' = [op |-> "getReport", status |-> "resolved",
                   arg |-> [year |-> y, month |-> m, currency |-> currency],
                   before |-> ratesRow, rates |-> e.rates,
                   value |-> ReportOf(costs, y, m, cur, e.rates)]
        /\ UNCHANGED <<clock, ratesURL, normVars, convVars, tableVars, asyncVars>>

\* getReport(year, month, currency); `before` and `rates` record the row the
\* call found and the table it converted with
GetReport(y, m, currency) ==
    LET cur == normalizeCurrency(OrElse(currency, sUSD))
        e   == EnsureRates(ratesRow, ratesURL)
    IN  /\ ratesRow' = e.row
        /\ ret' = [op |-> "getReport", status |-> "resolved",
                   arg |-> [year |-> y, month |-> m, currency |-> currency],
                   before |-> ratesRow, rates |-> e.rates,
                   value |-> ReportOf(costs, y, m, cur, e.rates)]
        /\ UNCHANGED <<costs, clock, ratesURL, normVars, convVars, tableVars, asyncVars>>

\* a month passes
Tick ==
    /\ Elapsed(clock) < MaxTicks
    /\ clock' = NextPeriod(clock)
    /\ UNCHANGED <<costs, ratesRow, ratesURL, ret, normVars, convVars, tableVars, asyncVars>>

Next ==
    \/ \E cost \in CostInputs : AddCost(cost)
    \/ \E rates \in RateInputs : SetRates(rates)
    \/ GetLatestRates
    \/ \E p \in ReportPeriods, c \in ReportCurrencies : GetReport(p[1], p[2], c)
    \/ Tick

Spec == Init /\ [][Next]_vars

---------------------------------------------------------------------------
(* addCost, setRates and getLatestRates on inputs that ought to be refused *)

\* sums 0, -5, NaN, "abc" and 100; the currency "euro", " " or none
SumInputs ==
    [ sum : {Fin(0), Fin(-5000), NaN, NotANumber, Fin(100000)},
      currency : {<<"e", "u", "r", "o">>, <<" ">>, Undefined},
      category : {"Food"},
      description : {"lunch"} ]

\* {USD: 1, GBP: v}
TableWith(v) == Flat([k \in {sUSD, sGBP} |-> IF k = sUSD THEN Fin(1000) ELSE v])

\* tables with a factor that is 0, -1, "abc" or Infinity and a table with both
\* Euro spellings, next to the valid ones and to null
TableInputs ==
    RateInputs \cup {TableWith(v) : v \in BadRates}
               \cup {Flat([k \in {sEUR, sEURO} |-> IF k = sEUR THEN Fin(700) ELSE Fin(900)])}

NextValidation ==
    \/ \E cost \in SumInputs : AddCost(cost)
    \/ \E rates \in TableInputs : SetRates(rates)
    \/ GetLatestRates

SpecValidation == Init /\ [][NextValidation]_vars

\* C14: addCost rejects every sum that is not a finite number > 0 (0, -5, NaN,
\* "abc"), and no record with such a sum is stored.
C14_RejectsBadSum ==
    /\ (ret.op = "addCost" /\ ~Positive(Number(ret.arg.sum))) => ret.status = "rejected"
    /\ \A i \in 1..Len(costs) : Positive(costs[i].sum)

\* C15: a successful addCost resolves with exactly the fields sum, currency,
\* category and description of the record it stored, the currency normalized;
\* no id and no year or month.
C15_EchoFourFields ==
    (ret.op = "addCost" /\ ret.status = "resolved") =>
        /\ DOMAIN ret.value = {"sum", "currency", "category", "description"}
        /\ ret.value.sum = Number(ret.arg.sum)
        /\ ret.value.currency = normalizeCurrency(OrElse(ret.arg.currency, sUSD))
        /\ ret.value.category = ret.arg.category
        /\ ret.value.description = ret.arg.description

\* 100 "euro" stored as record 2 and echoed as 100 EUR
C15_Witness ==
    /\ ret.op = "addCost" /\ ret.status = "resolved"
    /\ ret.arg.currency = <<"e", "u", "r", "o">>
    /\ ret.arg.sum = Fin(100000)
    /\ ret.value.currency = sEUR
    /\ Len(costs) = 2
    /\ costs[2].id = 2 /\ costs[2].currency = sEUR /\ costs[2].year = clock[1]

\* C16: setRates(null) fails and leaves the stored snapshot as it was.
C16_RefusesNull ==
    [][(ret'.op = "setRates" /\ ret'.arg = NULL)
          => (ret'.status = "rejected" /\ ratesRow' = ratesRow)]_vars

\* C17: every factor of the stored snapshot is a finite number > 0, and a
\* setRates whose table holds another factor is rejected.
C17_FactorsPositive ==
    /\ ratesRow.rates # NULL =>
           \A k \in DOMAIN ratesRow.rates.map : Positive(Number(ratesRow.rates.map[k]))
    /\ (/\ ret.op = "setRates"
        /\ ret.arg # NULL
        /\ \E k \in DOMAIN ret.arg.map : ~Positive(Number(ret.arg.map[k])))
       => ret.status = "rejected"

---------------------------------------------------------------------------
(* Reports *)

Reported == ret.op = "getReport"

\* the store holds exactly one record, of the given sum and currency, in the
\* period the last report was asked for
OnlyRecord(sum, currency) ==
    /\ Len(costs) = 1
    /\ costs[1].sum = sum
    /\ costs[1].currency = currency
    /\ costs[1].year = ret.value.year
    /\ costs[1].month = ret.value.month

C1_Scenario ==
    /\ Reported
    /\ ret.before = RowOf(TableFull)
    /\ OnlyRecord(Fin(100000), sGBP)
    /\ ret.value.total.currency = sUSD

C1_OneItem ==
    ret.value.costs = <<[ sum |-> Fin(100000), currency |-> sGBP,
                          category |-> "Food", description |-> "lunch" ]>>

RECURSIVE RawSum(_)
RawSum(items) ==
    IF items = << >> THEN Fin(0) ELSE Add(Head(items).sum, RawSum(Tail(items)))

\* C8: when no rate snapshot has ever been stored conversion is the identity:
\* getReport resolves with the unconverted sum as its total, in the requested
\* currency (50 for one 50-USD record requested in EUR).
C8_NoSnapshotIdentity ==
    (Reported /\ ret.before = NoRow) =>
        /\ ret.status = "resolved"
        /\ ret.value.total.total = Round2(RawSum(ret.value.costs))

\* C9: when the stored snapshot lacks an entry for the target currency or for
\* the currency of a matched record, getReport fails; it never resolves with
\* a total that holds the record's unconverted amount.
C9_MissingEntryFails ==
    (/\ Reported
     /\ LatestRates(ret.before) # NULL
     /\ \E i \in 1..Len(ret.value.costs) :
            LET it == ret.value.costs[i]
            IN  /\ ~SameCode(it.currency, ret.value.total.currency)
                /\ \/ Factor(ret.rates, it.currency) = Absent
                   \/ Factor(ret.rates, ret.value.total.currency) = Absent)
    => ret.status = "rejected"

\* C18: the rates collection holds one row at most; it changes only by a
\* setRates that succeeds, to the normalized form of the table passed, and
\* getLatestRates returns null while no row was written and the stored
\* normalized table afterwards.
C18_LatestIsLastSet ==
    [][/\ ratesRow' # ratesRow =>
             (/\ ret'.op = "setRates"
              /\ ret'.status = "resolved"
              /\ ratesRow' = [present |-> TRUE, rates |-> normalizeRatesObject(ret'.arg)])
       /\ ret'.op = "getLatestRates" =>
             ret'.value = (IF ratesRow'.present THEN ratesRow'.rates ELSE NULL)]_vars

\* positions of the stored records of the period (y, m)
Matching(y, m) == {i \in 1..Len(costs) : costs[i].year = y /\ costs[i].month = m}

\* C19: the costs of a report are exactly the stored records whose year and
\* month equal the requested ones, each once, in the order of their ids.
C19_ExactPeriod ==
    Reported =>
        LET idx   == Matching(ret.arg.year, ret.arg.month)
            items == ret.value.costs
        IN  /\ Len(items) = Cardinality(idx)
            /\ \A i \in idx :
                   LET it == items[Cardinality({j \in idx : j <= i})]
                   IN  /\ it.sum = costs[i].sum
                       /\ it.currency = costs[i].currency
                       /\ it.category = costs[i].category
                       /\ it.description = costs[i].description

\* two records of different months of one year, and a report holding one
C19_Witness ==
    /\ Reported
    /\ Len(costs) = 2
    /\ costs[1].year = costs[2].year
    /\ costs[1].month # costs[2].month
    /\ costs[1].sum # costs[2].sum
    /\ ret.arg.month = costs[2].month /\ ret.arg.year = costs[2].year
    /\ Len(ret.value.costs) = 1
    /\ ret.value.costs[1].sum = costs[2].sum

\* the sum of convert(item.sum, item.currency, cur, rates) over the items
RECURSIVE ConvertedSum(_, _, _)
ConvertedSum(items, cur, rates) ==
    IF items = << >> THEN Fin(0)
    ELSE Add(ConvertedSum(SubSeq(items, 1, Len(items) - 1), cur, rates),
             convert(items[Len(items)].sum, items[Len(items)].currency, cur, rates))

\* C20: the total of a report is in the requested currency and is the sum of
\* convert(record.sum, record.currency, target, snapshot) over its items,
\* rounded to 2 decimals, the snapshot being the stored one (identity when
\* none is stored); with no matching record it is 0 and costs is empty.
C20_TotalFromSnapshot ==
    Reported =>
        LET cur == normalizeCurrency(OrElse(ret.arg.currency, sUSD))
        IN  /\ ret.value.total.currency = cur
            /\ ret.value.total.total =
                   Round2(ConvertedSum(ret.value.costs, cur, LatestRates(ret.before)))
            /\ Matching(ret.arg.year, ret.arg.month) = {} =>
                   (ret.value.costs = << >> /\ ret.value.total.total = Fin(0))

\* C21: getReport hands out each matched record with the sum and currency it
\* was stored with and leaves the stored records as they are, and with a
\* snapshot stored its total is converted with that snapshot, the one live at
\* the time of the call.
C21_NoWriteBack ==
    [][ret'.op = "getReport" =>
          /\ costs' = costs
          /\ \A i \in 1..Len(ret'.value.costs) :
                 \E j \in 1..Len(costs) :
                    /\ costs[j].year = ret'.arg.year /\ costs[j].month = ret'.arg.month
                    /\ costs[j].sum = ret'.value.costs[i].sum
                    /\ costs[j].currency = ret'.value.costs[i].currency
          /\ (ret' # ret /\ LatestRates(ratesRow) # NULL) =>
                 ret'.value.total.total =
                    Round2(ConvertedSum(ret'.value.costs, ret'.value.total.currency,
                                        LatestRates(ratesRow)))]_vars

\* 50 EUR reported in USD at {USD: 1, EUR: 0.7}: the item says 50 EUR, the
\* total 71.43, the stored record still 50 EUR
C21_Witness ==
    /\ Reported
    /\ ret.before = RowOf(TableAlias)
    /\ OnlyRecord(Fin(50000), sEUR)
    /\ Len(ret.value.costs) = 1
    /\ ret.value.costs[1].sum = Fin(50000)
    /\ ret.value.costs[1].currency = sEUR
    /\ ret.value.total = [currency |-> sUSD, total |-> Fin(71430)]

\* C22: the ledger is append-only: every step keeps the stored records, in
\* place and field by field, and the ids grow strictly along the ledger.
C22_AppendOnly ==
    [][/\ Len(costs') >= Len(costs)
       /\ \A i \in 1..Len(costs) : costs'[i] = costs[i]
       /\ \A i, j \in 1..Len(costs') : i < j => costs'[i].id < costs'[j].id]_vars

\* two records, ids 1 and 2, after a setRates and a report
C22_Witness ==
    /\ Len(costs) = 2
    /\ costs[1].id = 1 /\ costs[2].id = 2
    /\ costs[1].sum # costs[2].sum
    /\ ratesRow.present
    /\ Reported /\ Len(ret.value.costs) = 2

\* C23: every stored record's currency is a canonical code (not empty, upper
\* case, trimmed, a fixed point of normalizeCurrency), and the two Euro
\* spellings are never both among the stored records nor both keys of the
\* stored rate table.
C23_CanonicalEverywhere ==
    /\ \A i \in 1..Len(costs) :
           /\ costs[i].currency # sEmpty
           /\ toUpperCase(costs[i].currency) = costs[i].currency
           /\ trim(costs[i].currency) = costs[i].currency
           /\ normalizeCurrency(costs[i].currency) = costs[i].currency
    /\ ~(\E i, j \in 1..Len(costs) : costs[i].currency = sEUR /\ costs[j].currency = sEURO)
    /\ ratesRow.rates # NULL =>
           ~(Has(ratesRow.rates.map, sEUR) /\ Has(ratesRow.rates.map, sEURO))

\* C29: getReport leaves the rates collection as it found it.
C29_ReportReadOnly ==
    [][ret'.op = "getReport" => ratesRow' = ratesRow]_vars

\* C30: two getReport calls with the same year, month and currency and no
\* addCost or setRates between them return the same total.
C30_ReportDeterministic ==
    [][(ret.op = "getReport" /\ ret'.op = "getReport" /\ ret'.arg = ret.arg)
          => ret'.value.total = ret.value.total]_vars

---------------------------------------------------------------------------
(* The API with calls in flight.  A call runs from one await to the next in  *)
(* one step.  Every transaction spans both object stores, so IndexedDB runs  *)
(* a read-write transaction alone, after every transaction created before    *)
(* it, and a read-only one after every read-write transaction created before *)
(* it.  A read-only transaction is one step.  A read-write transaction is    *)
(* two: its request, then its commit.  A request may fail (the error event   *)
(* reaches tx.onerror) and a commit may fail (the transaction aborts with no *)
(* error event on a request: withStore listens to no abort event).           *)

\* {USD: 1, GBP: 2.5, EUR: 0.4}
TableNew ==
    Flat([k \in {sUSD, sGBP, sEUR} |->
            IF k = sUSD THEN Fin(1000) ELSE IF k = sGBP THEN Fin(2500) ELSE Fin(400)])

\* a ledger of two records of the first month: 100 GBP Food, 50 EUR Travel
Ledger2 ==
    << [id |-> 1] @@ RecordOf([sum |-> Fin(100000), currency |-> sGBP,
                               category |-> "Food", description |-> "lunch"], FirstPeriod),
       [id |-> 2] @@ RecordOf([sum |-> Fin(50000), currency |-> <<"e", "u", "r", "o">>,
                               category |-> "Travel", description |-> "bus"], FirstPeriod) >>

AsyncCosts ==
    { [sum |-> Fin(50000), currency |-> sUSD, category |-> "Food", description |-> "lunch"],
      [sum |-> Fin(100000), currency |-> sGBP, category |-> "", description |-> "taxi"],
      [sum |-> NotANumber, currency |-> sUSD, category |-> "Food", description |-> "lunch"] }

AsyncRates == {TableNew}

AsyncFeeds == {NoURL, [url |-> TRUE, ok |-> TRUE, json |-> FeedTable(sEURO)]}

\* the store as earlier calls left it: the ledger of two records, and no
\* snapshot or the snapshot of a setRates; a rates URL only with no snapshot
InitAsync ==
    /\ costs = Ledger2
    /\ ratesRow \in {NoRow, RowOf(TableFull)}
    /\ clock = FirstPeriod
    /\ ratesURL \in AsyncFeeds
    /\ (ratesRow = NoRow \/ ratesURL = NoURL)
    /\ ret = [op |-> "none"]
    /\ AsyncIdle
    /\ NormIdle
    /\ ConvIdle
    /\ TableIdle

\* db.transaction(['costs', 'rates'], mode): the transaction joins the queue
Enqueue(c) == Append(txq, c)

Dequeue(c) == SelectSeq(txq, LAMBDA d : d # c)

Writing(c) == calls[c].pc \in {"w_queued", "w_requested"}

\* a read-write transaction runs when every earlier transaction has finished
MayWrite(c) == txq # << >> /\ Head(txq) = c

\* a read-only transaction runs when no earlier read-write one is live
MayRead(c) ==
    \E i \in 1..Len(txq) :
        /\ txq[i] = c
        /\ \A j \in 1..(i - 1) : ~Writing(txq[j])

\* the calls whose addCost promise has resolved
ResolvedAdds == {d \in Callers : calls[d].op = "addCost" /\ calls[d].status = "resolved"}

\* calls are numbered in the order they are issued
Fresh(c) ==
    /\ calls[c].pc = "idle"
    /\ \A d \in Callers : d < c => calls[d].pc # "idle"

Issue(c, op, arg) ==
    [IdleCall EXCEPT !.op = op, !.arg = arg,
                     !.before = [costs |-> costs, row |-> ratesRow],
                     !.after = ResolvedAdds]

\* addCost up to withStore: the record is built, a sum that is no finite
\* number throws, otherwise the transaction is opened and the add requested
StartAddCost(c, cost) ==
    LET rec == RecordOf(cost, clock)
    IN  /\ Fresh(c)
        /\ IF ~isFinite(rec.sum)
           THEN /\ calls' = [calls EXCEPT ![c] =
                                [Issue(c, "addCost", cost) EXCEPT
                                    !.pc = "done", !.status = "rejected"]]
                /\ UNCHANGED txq
           ELSE /\ calls' = [calls EXCEPT ![c] =
                                [Issue(c, "addCost", cost) EXCEPT
                                    !.pc = "w_queued", !.payload = rec]]
                /\ txq' = Enqueue(c)
        /\ UNCHANGED <<storeVars, faults, normVars, convVars, tableVars>>

\* setRates up to withStore
StartSetRates(c, rates) ==
    /\ Fresh(c)
    /\ calls' = [calls EXCEPT ![c] =
                    [Issue(c, "setRates", rates) EXCEPT
                        !.pc = "w_queued", !.payload = normalizeRatesObject(rates)]]
    /\ txq' = Enqueue(c)
    /\ UNCHANGED <<storeVars, faults, normVars, convVars, tableVars>>

\* getLatestRates up to withStore
StartGetLatestRates(c) ==
    /\ Fresh(c)
    /\ calls' = [calls EXCEPT ![c] =
                    [Issue(c, "getLatestRates", NULL) EXCEPT !.pc = "r_latest"]]
    /\ txq' = Enqueue(c)
    /\ UNCHANGED <<storeVars, faults, normVars, convVars, tableVars>>

\* getReport up to the getLatestRates of ensureRates; op "breakdown" is the
\* effect of PieChartView, which starts with the same call
StartGetReport(c, op, y, m, currency) ==
    /\ Fresh(c)
    /\ calls' = [calls EXCEPT ![c] =
                    [Issue(c, op, [year |-> y, month |-> m, currency |-> currency])
                        EXCEPT !.pc = "r_rates"]]
    /\ txq' = Enqueue(c)
    /\ UNCHANGED <<storeVars, faults, normVars, convVars, tableVars>>

ReportOps == {"getReport", "breakdown"}

\* a slip of NextKey below: the key taken from the ledger the call saw when
\* it was issued
NextKeyAtStart(rows, call) == Len(call.before.costs) + 1

\* the key generator of the store 'costs' (autoIncrement)
NextKey(rows, call) == Len(rows) + 1

\* the request of a read-write transaction: the add gets its key
Request(c) ==
    /\ calls[c].pc = "w_queued"
    /\ MayWrite(c)
    /\ calls' = [calls EXCEPT ![c].pc = "w_requested",
                              ![c].key = IF calls[c].op = "addCost"
                                         THEN NextKey(costs, calls[c]) ELSE 0]
    /\ UNCHANGED <<storeVars, txq, faults, normVars, convVars, tableVars>>

\* the commit of a read-write transaction, then tx.oncomplete
Commit(c) ==
    /\ calls[c].pc = "w_requested"
    /\ IF calls[c].op = "addCost"
       THEN /\ costs' = Append(costs, [id |-> calls[c].key] @@ calls[c].payload)
            /\ UNCHANGED ratesRow
       ELSE /\ ratesRow' = [present |-> TRUE, rates |-> calls[c].payload]
            /\ UNCHANGED costs
    /\ calls' = [calls EXCEPT ![c].pc = "w_complete"]
    /\ txq' = Dequeue(c)
    /\ UNCHANGED <<clock, ratesURL, ret, faults, normVars, convVars, tableVars>>

\* the request fails: its error event reaches tx.onerror, the transaction
\* aborts and nothing is written
FailTx(c) ==
    /\ calls[c].pc = "w_queued"
    /\ MayWrite(c)
    /\ faults < MaxFaults
    /\ faults' = faults + 1
    /\ calls' = [calls EXCEPT ![c].pc = "w_errored"]
    /\ txq' = Dequeue(c)
    /\ UNCHANGED <<storeVars, normVars, convVars, tableVars>>

\* the commit fails after the request succeeded: the transaction aborts,
\* nothing is written, and only an abort event is fired, which withStore
\* does not listen to
AbortTx(c) ==
    /\ calls[c].pc = "w_requested"
    /\ faults < MaxFaults
    /\ faults' = faults + 1
    /\ calls' = [calls EXCEPT ![c].pc = "w_aborted"]
    /\ txq' = Dequeue(c)
    /\ UNCHANGED <<storeVars, normVars, convVars, tableVars>>

\* a slip of CanResolve below: the promise resolved from the success of the
\* request
CanResolveOnRequest(call) == call.pc \in {"w_requested", "w_complete"}

\* tx.oncomplete = () => resolve(out)
CanResolve(call) == call.pc = "w_complete"

\* the promise of addCost or setRates settles: resolved after tx.oncomplete,
\* rejected after tx.onerror
SettleWrite(c) ==
    /\ calls[c].op \in {"addCost", "setRates"}
    /\ calls[c].status = "pending"
    /\ \/ /\ CanResolve(calls[c])
          /\ calls' = [calls EXCEPT
                          ![c].status = "resolved",
                          ![c].pc = IF calls[c].pc = "w_complete" THEN "done" ELSE calls[c].pc,
                          ![c].value = IF calls[c].op = "addCost"
                                       THEN Echo(calls[c].payload) ELSE NULL]
       \/ /\ calls[c].pc = "w_errored"
          /\ calls' = [calls EXCEPT ![c].status = "rejected", ![c].pc = "done"]
    /\ UNCHANGED <<storeVars, txq, faults, normVars, convVars, tableVars>>

\* the read-only transaction of getLatestRates, also inside ensureRates and in
\* the effect of PieChartView
ReadRates(c) ==
    /\ calls[c].pc \in {"r_rates", "r_latest"}
    /\ MayRead(c)
    /\ calls' = IF calls[c].pc = "r_rates"
                THEN [calls EXCEPT ![c].pc = "got_rates",
                                   ![c].rates = LatestRates(ratesRow)]
                ELSE [calls EXCEPT ![c].pc = "got_latest",
                                   ![c].latest = LatestRates(ratesRow)]
    /\ txq' = Dequeue(c)
    /\ UNCHANGED <<storeVars, faults, normVars, convVars, tableVars>>

\* ensureRates after getLatestRates: with a table, or with no URL or a fetch
\* that fails, getReport goes on to read the items; otherwise the feed is
\* fetched and setRates(json) opens its transaction
AfterRates(c) ==
    /\ calls[c].pc = "got_rates"
    /\ IF calls[c].rates # NULL \/ ~(ratesURL.url /\ ratesURL.ok)
       THEN calls' = [calls EXCEPT ![c].pc = "r_items"]
       ELSE calls' = [calls EXCEPT ![c].pc = "w_queued",
                                   ![c].payload = normalizeRatesObject(ratesURL.json)]
    /\ txq' = Enqueue(c)
    /\ UNCHANGED <<storeVars, faults, normVars, convVars, tableVars>>

\* fetchRatesFromURL after its setRates: the table as fetched is returned; a
\* setRates that rejects is caught by ensureRates, which returns null
AfterSave(c) ==
    /\ calls[c].op \in ReportOps
    /\ calls[c].pc \in {"w_complete", "w_errored"}
    /\ calls' = [calls EXCEPT ![c].pc = "r_items",
                              ![c].rates = IF calls[c].pc = "w_complete"
                                           THEN ratesURL.json ELSE NULL]
    /\ txq' = Enqueue(c)
    /\ UNCHANGED <<storeVars, faults, normVars, convVars, tableVars>>

\* the read-only transaction of getReport: the cursor over by_year_month
ReadItems(c) ==
    /\ calls[c].pc = "r_items"
    /\ MayRead(c)
    /\ LET sel == SelectSeq(costs, LAMBDA v : /\ v.year = calls[c].arg.year
                                             /\ v.month = calls[c].arg.month)
       IN  calls' = [calls EXCEPT
                        ![c].pc = "got_items",
                        ![c].items = ItemsOf(costs, calls[c].arg.year, calls[c].arg.month),
                        ![c].keys = [i \in 1..Len(sel) |-> sel[i].id]]
    /\ txq' = Dequeue(c)
    /\ UNCHANGED <<storeVars, faults, normVars, convVars, tableVars>>

\* the report getReport builds from the items and the table it holds
ReportFrom(items, y, m, cur, rates) ==
    [ year  |-> y, month |-> m, costs |-> items,
      total |-> [ currency |-> cur,
                  total    |-> Round2(TotalFrom(Fin(0), items, cur, rates)) ] ]

\* getReport resolves; the effect of PieChartView goes on to getLatestRates
SettleReport(c) ==
    /\ calls[c].pc = "got_items"
    /\ LET a      == calls[c].arg
           report == ReportFrom(calls[c].items, a.year, a.month,
                                normalizeCurrency(OrElse(a.currency, sUSD)),
                                calls[c].rates)
       IN  IF calls[c].op = "getReport"
           THEN /\ calls' = [calls EXCEPT ![c].pc = "done", ![c].status = "resolved",
                                          ![c].value = report]
                /\ UNCHANGED txq
           ELSE /\ calls' = [calls EXCEPT ![c].pc = "r_latest", ![c].rep = report]
                /\ txq' = Enqueue(c)
    /\ UNCHANGED <<storeVars, faults, normVars, convVars, tableVars>>

\* it.category || 'other'
CategoryOf(it) == IF it.category = "" THEN "other" ELSE it.category

\* byCat.get(k): the converted amounts of the items of category k, added up
RECURSIVE GroupSum(_, _, _, _)
GroupSum(items, k, base, rates) ==
    IF items = << >> THEN Fin(0)
    ELSE LET it == Head(items)
             rest == GroupSum(Tail(items), k, base, rates)
         IN  IF CategoryOf(it) = k
             THEN Add(IF rates # NULL THEN convert(it.sum, it.currency, base, rates)
                      ELSE it.sum, rest)
             ELSE rest

\* byCat of PieChartView
ByCategory(items, base, rates) ==
    [k \in {CategoryOf(items[i]) : i \in 1..Len(items)} |-> GroupSum(items, k, base, rates)]

\* getLatestRates resolves; the effect of PieChartView builds its groups
SettleLatest(c) ==
    /\ calls[c].pc = "got_latest"
    /\ calls' = [calls EXCEPT
                    ![c].pc = "done", ![c].status = "resolved",
                    ![c].value = IF calls[c].op = "getLatestRates" THEN calls[c].latest
                                 ELSE ByCategory(calls[c].rep.costs, calls[c].arg.currency,
                                                 calls[c].latest)]
    /\ UNCHANGED <<storeVars, txq, faults, normVars, convVars, tableVars>>

NextAsync ==
    \E c \in Callers :
        \/ \E cost \in AsyncCosts : StartAddCost(c, cost)
        \/ \E rates \in AsyncRates : StartSetRates(c, rates)
        \/ StartGetLatestRates(c)
        \/ \E op \in ReportOps : StartGetReport(c, op, FirstPeriod[1], FirstPeriod[2], sUSD)
        \/ Request(c)
        \/ Commit(c)
        \/ FailTx(c)
        \/ AbortTx(c)
        \/ SettleWrite(c)
        \/ ReadRates(c)
        \/ AfterRates(c)
        \/ AfterSave(c)
        \/ ReadItems(c)
        \/ SettleReport(c)
        \/ SettleLatest(c)

SpecAsync == InitAsync /\ [][NextAsync]_vars

\* the steps of a call that the event loop and the database take on their
\* own, once the call was issued and while nothing fails
Progress(c) ==
    \/ Request(c)
    \/ Commit(c)
    \/ SettleWrite(c)
    \/ ReadRates(c)
    \/ AfterRates(c)
    \/ AfterSave(c)
    \/ ReadItems(c)
    \/ SettleLatest(c)

\* SettleReport(c) is enabled exactly while the call holds its items and it
\* always leaves that position: weak fairness of it, written as a state formula
ReportSettles(c) == []<>(calls[c].pc # "got_items")

\* every task that is ready is run, every transaction that may run does
SpecAsyncFair ==
    SpecAsync /\ \A c \in Callers : WF_vars(Progress(c)) /\ ReportSettles(c)

---------------------------------------------------------------------------
(* Calls in flight: what is claimed *)

ResolvedAs(c, op) == calls[c].op = op /\ calls[c].status = "resolved"

\* the record of the addCost call c is in the ledger, under the key it got
Stored(c) ==
    \E i \in 1..Len(costs) : costs[i] = [id |-> calls[c].key] @@ calls[c].payload

\* the ledger the call c saw when it was issued is still there, unaltered
KeepsLedger(c) ==
    /\ Len(costs) >= Len(calls[c].before.costs)
    /\ SubSeq(costs, 1, Len(calls[c].before.costs)) = calls[c].before.costs

\* C24: when two addCost calls have both resolved, both records are stored,
\* under distinct ids, and every record stored before is still there
\* unaltered.
C24_ConcurrentAdds ==
    \A c, d \in Callers :
        (c # d /\ ResolvedAs(c, "addCost") /\ ResolvedAs(d, "addCost")) =>
            /\ Stored(c) /\ Stored(d)
            /\ calls[c].key # calls[d].key
            /\ \A i, j \in 1..Len(costs) : i # j => costs[i].id # costs[j].id
            /\ KeepsLedger(c) /\ KeepsLedger(d)

\* two addCost calls issued on the ledger of two records, neither resolved
\* when the other was issued, both resolved
C24_Witness ==
    /\ ResolvedAs(1, "addCost") /\ ResolvedAs(2, "addCost")
    /\ calls[1].before.costs = Ledger2 /\ calls[2].before.costs = Ledger2
    /\ calls[1].after = {} /\ calls[2].after = {}
    /\ Len(costs) = 4
    /\ calls[1].key = 3 /\ calls[2].key = 4

\* C25: the total of a getReport is computed with one table for all items:
\* the snapshot stored when the call was issued (identity with none) or the
\* table of a setRates in flight with it.
C25_OneSnapshot ==
    \A c \in Callers :
        ResolvedAs(c, "getReport") =>
            LET v     == calls[c].value
                cands == {LatestRates(calls[c].before.row)} \cup
                         {calls[d].payload : d \in {x \in Callers : calls[x].op = "setRates"}}
            IN  \E T \in cands :
                    v.total.total = Round2(ConvertedSum(v.costs, v.total.currency, T))

Issued(c) == calls[c].op \in {"addCost", "setRates", "getReport"}

Failed(c) == calls[c].pc \in {"w_aborted", "w_errored"}

\* C26: every addCost, setRates and getReport settles; a call whose
\* transaction aborted has not resolved, and the abort leaves the store as it
\* was.
C26_SettlesOrRejects ==
    /\ \A c \in Callers : [](Issued(c) => <>(calls[c].status # "pending"))
    /\ [](\A c \in Callers : Failed(c) => calls[c].status # "resolved")
    /\ [][\A c \in Callers :
            (Failed(c)' /\ ~Failed(c)) => (costs' = costs /\ ratesRow' = ratesRow)]_vars

\* C27: a getReport issued after an addCost resolved holds the record of that
\* addCost, when it asks for the record's year and month.
C27_ResolvedIsDurable ==
    \A c \in Callers :
        ResolvedAs(c, "getReport") =>
            \A d \in calls[c].after :
                (/\ calls[d].payload.year = calls[c].arg.year
                 /\ calls[d].payload.month = calls[c].arg.month)
                => \E i \in 1..Len(calls[c].keys) : calls[c].keys[i] = calls[d].key

\* a report of three records, issued after the addCost of the third resolved
C27_Witness ==
    /\ ResolvedAs(2, "getReport")
    /\ calls[2].after = {1}
    /\ calls[1].key = 3
    /\ calls[2].keys = <<1, 2, 3>>
    /\ Len(calls[2].value.costs) = 3

\* the values of the groups, added up
RECURSIVE SumOver(_, _)
SumOver(f, S) ==
    IF S = {} THEN Fin(0)
    ELSE LET k == CHOOSE x \in S : TRUE
         IN  Add(f[k], SumOver(f, S \ {k}))

\* C28: the groups of one breakdown load add up to the sum of the converted
\* amounts behind the total of its getReport.
C28_BreakdownMatchesTotal ==
    \A c \in Callers :
        ResolvedAs(c, "breakdown") =>
            SumOver(calls[c].value, DOMAIN calls[c].value) =
                ConvertedSum(calls[c].rep.costs, calls[c].rep.total.currency, calls[c].rates)

=============================================================================
